---- MODULE Spec2Model ----
(***************************************************************************)
(* SlideShifter: PDF -> PowerPoint conversion pipeline.                    *)
(*                                                                         *)
(* The model follows the asynchronous control flow of App.tsx              *)
(* (handleFileAccepted, createSimplePptx, analyzeSlides, handleReset),     *)
(* services/pdfUtils.ts (convertPdfToImages), services/pptBuilder.ts       *)
(* (cropImage, generateImagePptx, generatePptx) and                        *)
(* components/Dropzone.tsx (validateAndProcess).  Every action is one      *)
(* run-to-completion segment of JavaScript between two await points (or    *)
(* between two setAppState calls); pc is the await point the pipeline is   *)
(* suspended at.                                                           *)
(***************************************************************************)
EXTENDS Integers, Sequences, FiniteSets, TLC

(***************************************************************************)
(* Bounds                                                                  *)
(***************************************************************************)
MaxPages == 2

(***************************************************************************)
(* Values                                                                  *)
(***************************************************************************)
\* AppState enum
AppState == {"IDLE", "PROCESSING_PDF", "ANALYZING_SLIDES", "GENERATING_PPT",
             "COMPLETED", "ERROR"}

\* ConversionMode
ConversionMode == {"AI_EXTRACT", "IMAGE_ONLY"}

\* ProcessedSlide.status
SlideStatus == {"pending", "analyzing", "done", "error"}

\* JavaScript null (analysis: SlideContent | null, error: string | null)
Null == [null |-> TRUE]
NoError == "null"

\* The raster of page j of the document (an opaque base64 string); the
\* pages of a document render to different rasters
PageImage(j) == "page" \o ToString(j)

\* Dropzone: 20 * 1024 * 1024
MaxFileSize == 20971520

\* Files the user can drop: [type, size]
Files == { [type |-> "application/pdf", size |-> 1000],
           [type |-> "application/pdf", size |-> MaxFileSize],
           [type |-> "application/pdf", size |-> MaxFileSize + 1],
           [type |-> "image/png",       size |-> 1000] }

\* Messages set by setError in App.tsx
MsgProcessPdf == "Failed to process PDF. Please try a simpler file."
MsgGeneratePpt == "Failed to generate PowerPoint file."

\* Messages of the Error objects thrown and logged by console.error
ErrNoSlides == "No slides were successfully analyzed."
ErrWrite == "writeFile rejected"
ErrReadPdf == "pdf load rejected"
ErrRenderPage == "page render rejected"

\* Messages set by setError in Dropzone.tsx
MsgNotPdf == "Please upload a valid PDF file."
MsgTooBig == "File size exceeds 20MB limit."

(***************************************************************************)
(* Analyzer results (SlideContent).  An absent optional field is the empty *)
(* value, which is falsy in JavaScript like undefined: "" for notes, <<>>  *)
(* for a color and for figures.  A color is its characters grouped in      *)
(* tokens, so that replace('#', '') is computed and not assumed.           *)
(***************************************************************************)
LayoutType == {"TITLE_ONLY", "TITLE_AND_CONTENT", "TWO_COLUMN", "BLANK",
               "SECTION_HEADER"}

\* SlideFigure.boundingBox is [ymin, xmin, ymax, xmax] on a 0-100 scale
BoxInside == <<10, 20, 60, 70>>
BoxInverted == <<10, 70, 60, 20>>
BoxOutside == <<10, 100, 60, 150>>
BoxOverhang == <<50, 50, 120, 130>>

Figure(box) == [boundingBox |-> box, description |-> "fig"]

SlideContent(t, c, l, bg, fg, n, figs) ==
    [title |-> t, content |-> c, layoutType |-> l, backgroundColor |-> bg,
     textColor |-> fg, notes |-> n, figures |-> figs]

AnalysisIntro ==
    SlideContent("Intro", <<"a", "b", "c">>, "TITLE_AND_CONTENT",
                 <<"#", "FFFFFF">>, <<"#", "112233">>, "speaker notes", <<>>)

AnalysisFigures ==
    SlideContent("", <<"a">>, "TWO_COLUMN", <<>>, <<>>, "",
                 <<Figure(BoxInside), Figure(BoxInverted), Figure(BoxOutside)>>)

AnalysisSection ==
    SlideContent("Part", <<"a", "b">>, "SECTION_HEADER", <<"00FF00">>, <<>>, "",
                 <<Figure(BoxOverhang)>>)

\* What analyzeSlideImage can resolve with: JSON.parse(response.text) is
\* returned unvalidated, so a response text of "null" resolves with null.
Analyses == {AnalysisIntro, AnalysisFigures, AnalysisSection}
AnalyzerResults == Analyses \cup {Null}

\* Pixel size of a decoded page raster (img.width, img.height)
ImageWidth(img) == IF img = PageImage(2) THEN 100 ELSE 200
ImageHeight(img) == IF img = PageImage(2) THEN 300 ELSE 100

(***************************************************************************)
(* ProcessedSlide                                                          *)
(***************************************************************************)
ProcessedSlide(img, a, st) == [originalImage |-> img, analysis |-> a, status |-> st]

\* App.tsx 24-28: images.map(img => ({originalImage: img, analysis: null, status: 'pending'}))
initialSlides(imgs) ==
    [j \in 1..Len(imgs) |-> ProcessedSlide(imgs[j], Null, "pending")]

\* App.tsx 55: currentSlides.map(s => ({ ...s, status: 'done' }))
MarkAllDone(ss) == [j \in 1..Len(ss) |-> [ss[j] EXCEPT !.status = "done"]]

\* App.tsx 99: updatedSlides.filter(s => s.status === 'done' && s.analysis)
IsValidSlide(s) == s.status = "done" /\ s.analysis # Null
validSlides(ss) == SelectSeq(ss, IsValidSlide)

(***************************************************************************)
(* services/pptBuilder.ts: cropImage                                       *)
(***************************************************************************)
Max(a, b) == IF a >= b THEN a ELSE b
Min(a, b) == IF a <= b THEN a ELSE b

\* (p / 100) * dim; the modelled image sizes are multiples of 100, so the
\* quotient is exact
Pct(p, dim) == (p * dim) \div 100

\* pptBuilder.ts 8-12: the fail-fast validation of the box
InvalidBox(box) == box[4] <= box[2] \/ box[3] <= box[1]

Rejected(msg) == [ok |-> FALSE, err |-> msg]
Resolved(data) == [ok |-> TRUE, data |-> data]

\* Mutation of onload: the source rectangle is not clamped to the image
onloadUnclamped(img, box, ctxOk) ==
    LET width == ImageWidth(img)
        height == ImageHeight(img)
        cropX == Pct(box[2], width)
        cropY == Pct(box[1], height)
        cropW == Pct(box[4] - box[2], width)
        cropH == Pct(box[3] - box[1], height)
    IN  IF ~ctxOk THEN Rejected("Could not get canvas context")
        ELSE IF cropW <= 0 \/ cropH <= 0
             THEN Rejected("Invalid calculated crop dimensions")
             ELSE Resolved([src |-> img, sx |-> cropX, sy |-> cropY,
                            sw |-> cropW, sh |-> cropH])

\* Mutation of onload: the padding its comment speaks of is applied, a
\* tenth of the image to the left of and above the box
onloadPadded(img, box, ctxOk) ==
    LET width == ImageWidth(img)
        height == ImageHeight(img)
        cropX == Pct(box[2], width) - Pct(10, width)
        cropY == Pct(box[1], height) - Pct(10, height)
        cropW == Pct(box[4] - box[2], width) + Pct(10, width)
        cropH == Pct(box[3] - box[1], height) + Pct(10, height)
        safeX == Max(0, cropX)
        safeY == Max(0, cropY)
        safeW == Min(width - safeX, cropW)
        safeH == Min(height - safeY, cropH)
    IN  IF ~ctxOk THEN Rejected("Could not get canvas context")
        ELSE IF safeW <= 0 \/ safeH <= 0
             THEN Rejected("Invalid calculated crop dimensions")
             ELSE Resolved([src |-> img, sx |-> safeX, sy |-> safeY,
                            sw |-> safeW, sh |-> safeH])

\* pptBuilder.ts 21-67: img.onload.  ctxOk is whether canvas.getContext('2d')
\* returned a context.  The resolved data URL is the source rectangle
\* drawImage read.
onload(img, box, ctxOk) ==
    LET ymin == box[1]
        xmin == box[2]
        ymax == box[3]
        xmax == box[4]
        width == ImageWidth(img)
        height == ImageHeight(img)
        cropX == Pct(xmin, width)
        cropY == Pct(ymin, height)
        cropW == Pct(xmax - xmin, width)
        cropH == Pct(ymax - ymin, height)
        safeX == Max(0, cropX)
        safeY == Max(0, cropY)
        safeW == Min(width - safeX, cropW)
        safeH == Min(height - safeY, cropH)
    IN  IF ~ctxOk THEN Rejected("Could not get canvas context")
        ELSE IF safeW <= 0 \/ safeH <= 0
             THEN Rejected("Invalid calculated crop dimensions")
             ELSE Resolved([src |-> img, sx |-> safeX, sy |-> safeY,
                            sw |-> safeW, sh |-> safeH])

\* A cropImage invocation: its arguments, the timeout ("none", "armed",
\* "cleared", "fired"), the image decode ("none", "pending", "loaded",
\* "failed") and its promise (pending, or settled with a result)
PromisePending == [state |-> "pending"]
PromiseSettled(result) == [state |-> "settled", result |-> result]
NoCrop == [image |-> "none", box |-> << >>, timer |-> "none", decode |-> "none",
           promise |-> [state |-> "none"]]

\* resolve / reject on a promise: a settled promise keeps its result
Settle(promise, result) ==
    IF promise.state = "pending" THEN PromiseSettled(result) ELSE promise

\* clearTimeout(timeoutId): cancels a timeout that has not fired
clearTimeout(timer) == IF timer = "armed" THEN "cleared" ELSE timer

\* Mutation of cropImage: the box is validated after the timeout is armed
\* and the decode started
cropImageValidatesLate(img, box) ==
    [image |-> img, box |-> box, timer |-> "armed", decode |-> "pending",
     promise |-> IF InvalidBox(box)
                 THEN PromiseSettled(Rejected("Invalid bounding box"))
                 ELSE PromisePending]

\* pptBuilder.ts 5-19, 74: the promise executor of cropImage
cropImage(img, box) ==
    IF InvalidBox(box)
    THEN [image |-> img, box |-> box, timer |-> "none", decode |-> "none",
          promise |-> PromiseSettled(Rejected("Invalid bounding box"))]
    ELSE [image |-> img, box |-> box, timer |-> "armed", decode |-> "pending",
          promise |-> PromisePending]

\* pptBuilder.ts 69-72: img.onerror
onerror == Rejected("Failed to load image for cropping")

\* pptBuilder.ts 17-19: the setTimeout callback
onTimeout == Rejected("Image load timed out in cropImage")

(***************************************************************************)
(* services/pptBuilder.ts: draw operations of one slide                    *)
(***************************************************************************)
\* String.prototype.replace('#', ''): removes the first '#', wherever it is
FirstHash(c) == CHOOSE j \in 1..Len(c) : c[j] = "#" /\ \A h \in 1..(j-1) : c[h] # "#"
ReplaceHash(c) ==
    IF \E j \in 1..Len(c) : c[j] = "#"
    THEN SubSeq(c, 1, FirstHash(c) - 1) \o SubSeq(c, FirstHash(c) + 1, Len(c))
    ELSE c

\* Mutation of fgColor: the default text color is white
fgColorDefaultWhite(slideData) ==
    IF slideData.textColor # <<>> THEN ReplaceHash(slideData.textColor)
    ELSE <<"FFFFFF">>

\* pptBuilder.ts 126
fgColor(slideData) ==
    IF slideData.textColor # <<>> THEN ReplaceHash(slideData.textColor)
    ELSE <<"000000">>

\* pptBuilder.ts 123-125
BackgroundOps(slideData) ==
    IF slideData.backgroundColor # <<>>
    THEN << [op |-> "background", color |-> ReplaceHash(slideData.backgroundColor)] >>
    ELSE << >>

\* pptBuilder.ts 129-137
TitleOps(slideData) ==
    IF slideData.title # ""
    THEN << [op |-> "addText", text |-> <<slideData.title>>, x |-> "0.5", y |-> "0.5",
             w |-> "90%", h |-> "1", fontSize |-> 32, bold |-> TRUE,
             color |-> fgColor(slideData), align |-> "center", bullet |-> FALSE] >>
    ELSE << >>

\* Mutation of CeilHalf: Math.floor(n / 2)
FloorHalf(n) == n \div 2

\* Math.ceil(n / 2)
CeilHalf(n) == (n + 1) \div 2

\* Array.prototype.join('\n')
RECURSIVE Join(_)
Join(blocks) ==
    IF Len(blocks) = 0 THEN ""
    ELSE IF Len(blocks) = 1 THEN blocks[1]
    ELSE blocks[1] \o "\n" \o Join(Tail(blocks))

BodyText(blocks, x, y, w, h, size, align, bullet, color) ==
    [op |-> "addText", text |-> blocks, x |-> x, y |-> y, w |-> w, h |-> h,
     fontSize |-> size, bold |-> FALSE, color |-> color, align |-> align,
     bullet |-> bullet]

\* pptBuilder.ts 148-181
ContentOps(slideData) ==
    LET content == slideData.content
        fg == fgColor(slideData)
        midPoint == CeilHalf(Len(content))
        leftCol == SubSeq(content, 1, midPoint)
        rightCol == SubSeq(content, midPoint + 1, Len(content))
    IN  IF slideData.layoutType = "TWO_COLUMN"
        THEN (IF Len(leftCol) > 0
              THEN << BodyText(leftCol, "0.5", "1.8", "4.2", "70%", 18, "default", TRUE, fg) >>
              ELSE << >>)
             \o
             (IF Len(rightCol) > 0
              THEN << BodyText(rightCol, "5.0", "1.8", "4.2", "70%", 18, "default", TRUE, fg) >>
              ELSE << >>)
        ELSE IF slideData.layoutType = "SECTION_HEADER"
        THEN (IF Len(content) > 0
              THEN << BodyText(<<Join(content)>>, "1", "2.5", "80%", "3", 24, "center", FALSE, fg) >>
              ELSE << >>)
        ELSE (IF Len(content) > 0
              THEN << BodyText(content, "0.5", "1.8", "90%", "70%", 18, "left", TRUE, fg) >>
              ELSE << >>)

\* the template string `${n}%`
Percent(n) == ToString(n) \o "%"

\* pptBuilder.ts 199-205
FigureImageOp(data, box) ==
    [op |-> "addImage", data |-> data, x |-> Percent(box[2]), y |-> Percent(box[1]),
     w |-> Percent(box[4] - box[2]), h |-> Percent(box[3] - box[1])]

\* Mutation of FullBleedImageOp: the image is sized in inches, not 100%
FullBleedImageOpInches(img) ==
    [op |-> "addImage", data |-> img, x |-> "0", y |-> "0", w |-> "10", h |-> "5.625"]

\* pptBuilder.ts 92-98
FullBleedImageOp(img) ==
    [op |-> "addImage", data |-> img, x |-> "0", y |-> "0", w |-> "100%", h |-> "100%"]

\* pptBuilder.ts 214-216
NotesOps(slideData) ==
    IF slideData.notes # "" THEN << [op |-> "addNotes", text |-> slideData.notes] >>
    ELSE << >>

\* A PptxGenJS instance: whether it was constructed, the slides added to it
\* (each with the slide item it was built from and its draw operations) and
\* the state of writeFile ("none", "pending", "ok", "failed")
NoPptx == [created |-> FALSE, slides |-> << >>, write |-> "none"]
NewPptx == [created |-> TRUE, slides |-> << >>, write |-> "none"]

\* Mutation of addSlide: the new slide is put first instead of last
addSlideFirst(p, slideItem, ops) ==
    [p EXCEPT !.slides = <<[item |-> slideItem, ops |-> ops]>> \o @]

\* pptx.addSlide() for slideItem, followed by the operations ops
addSlide(p, slideItem, ops) ==
    [p EXCEPT !.slides = Append(@, [item |-> slideItem, ops |-> ops])]

\* an operation on the slide added last
addOps(p, ops) ==
    [p EXCEPT !.slides[Len(p.slides)].ops = @ \o ops]

\* pptBuilder.ts 88-99: the loop of generateImagePptx
RECURSIVE imageSlides(_, _)
imageSlides(p, items) ==
    IF items = << >> THEN p
    ELSE imageSlides(addSlide(p, Head(items), <<FullBleedImageOp(Head(items).originalImage)>>),
                     Tail(items))

(***************************************************************************)
(* State                                                                   *)
(***************************************************************************)
VARIABLES
    appState,         \* App: useState<AppState>
    slides,           \* App: useState<ProcessedSlide[]>
    progress,         \* App: useState<{current, total}>
    error,            \* App: useState<string | null>
    mode,             \* App: useState<ConversionMode>
    dzError,          \* Dropzone: useState<string | null>
    pc,               \* await point the pipeline is suspended at
    numPages,         \* convertPdfToImages: pdf.numPages
    images,           \* convertPdfToImages: images
    currentSlides,    \* analyzeSlides / createSimplePptx: the parameter currentSlides
    updatedSlides,    \* analyzeSlides / createSimplePptx: updatedSlides
    i,                \* analyzeSlides: loop index (0-based, as in the code)
    base64Image,      \* analyzeSlideImage: the parameter base64Image of the call made last
    processedSlides,  \* generatePptx / generateImagePptx: processedSlides
    k,                \* generatePptx: position of slideItem in processedSlides (1-based)
    f,                \* generatePptx: position of figure in slideData.figures (1-based)
    pptx,             \* generatePptx / generateImagePptx: the PptxGenJS instance
    crop,             \* cropImage: the invocation started last (image, box, timer, decode, promise)
    logged            \* message of the last error given to console.error by a batch-level catch

vars == <<appState, slides, progress, error, mode, dzError, pc, numPages, images,
          currentSlides, updatedSlides, i, base64Image, processedSlides, k, f, pptx, crop,
          logged>>

appVars == <<appState, slides, progress, error, mode>>
convertVars == <<numPages, images>>
analyzeVars == <<currentSlides, updatedSlides, i, base64Image>>
builderVars == <<processedSlides, k, f, pptx, crop>>

Init ==
    /\ appState = "IDLE"
    /\ slides = << >>
    /\ progress = [current |-> 0, total |-> 0]
    /\ error = NoError
    /\ mode = "AI_EXTRACT"
    /\ dzError = NoError
    /\ pc = "idle"
    /\ numPages = 0
    /\ images = << >>
    /\ currentSlides = << >>
    /\ updatedSlides = << >>
    /\ i = 0
    /\ base64Image = ""
    /\ processedSlides = << >>
    /\ k = 1
    /\ f = 1
    /\ pptx = NoPptx
    /\ crop = NoCrop
    /\ logged = NoError

(***************************************************************************)
(* App.tsx: user interface                                                 *)
(***************************************************************************)
\* App.tsx 164-185: the mode buttons are rendered only while appState is IDLE
setMode(m) ==
    /\ appState = "IDLE"
    /\ mode' = m
    /\ UNCHANGED <<appState, slides, progress, error, dzError, pc, convertVars,
                   analyzeVars, builderVars, logged>>

\* Dropzone.tsx 40-50: validateAndProcess rejecting the file
validateAndProcessReject(file) ==
    /\ appState = "IDLE"
    /\ file.type # "application/pdf" \/ file.size > MaxFileSize
    /\ dzError' = IF file.type # "application/pdf" THEN MsgNotPdf ELSE MsgTooBig
    /\ UNCHANGED <<appVars, pc, convertVars, analyzeVars, builderVars, logged>>

\* Dropzone.tsx 40-52 and App.tsx 17-22: an accepted file starts
\* handleFileAccepted, which runs up to the first await of convertPdfToImages.
\* The Dropzone is rendered only while appState is IDLE (App.tsx 151, 205) and
\* loses its state when it is unmounted.  The locals of the activations of an
\* earlier run no longer exist.
handleFileAccepted(file) ==
    /\ appState = "IDLE"
    /\ file.type = "application/pdf" /\ file.size <= MaxFileSize
    /\ appState' = "PROCESSING_PDF"
    /\ error' = NoError
    /\ dzError' = NoError
    /\ pc' = "load"
    /\ numPages' = 0
    /\ images' = << >>
    /\ currentSlides' = << >>
    /\ updatedSlides' = << >>
    /\ i' = 0
    /\ base64Image' = ""
    /\ processedSlides' = << >>
    /\ k' = 1
    /\ f' = 1
    /\ pptx' = NoPptx
    /\ logged' = NoError
    /\ UNCHANGED <<slides, progress, mode, crop>>

\* Mutation of handleReset: a reset button is rendered in ERROR as well
handleResetAfterError ==
    /\ appState \in {"COMPLETED", "ERROR"}
    /\ appState' = "IDLE"
    /\ slides' = << >>
    /\ error' = NoError
    /\ progress' = [current |-> 0, total |-> 0]
    /\ UNCHANGED <<mode, dzError, pc, convertVars, analyzeVars, builderVars, logged>>

\* App.tsx 115-120: the reset buttons are rendered only in COMPLETED (134, 258)
handleReset ==
    /\ appState = "COMPLETED"
    /\ appState' = "IDLE"
    /\ slides' = << >>
    /\ error' = NoError
    /\ progress' = [current |-> 0, total |-> 0]
    /\ UNCHANGED <<mode, dzError, pc, convertVars, analyzeVars, builderVars, logged>>

(***************************************************************************)
(* The batch-level catch blocks                                            *)
(***************************************************************************)
\* App.tsx 41-45: catch of handleFileAccepted
catchProcessPdf(msg) ==
    /\ logged' = msg
    /\ error' = MsgProcessPdf
    /\ appState' = "ERROR"
    /\ pc' = "idle"

\* App.tsx 60-64 and 108-112: catch of createSimplePptx and of analyzeSlides
catchGeneratePpt(msg) ==
    /\ logged' = msg
    /\ error' = MsgGeneratePpt
    /\ appState' = "ERROR"
    /\ pc' = "idle"

(***************************************************************************)
(* services/pdfUtils.ts: convertPdfToImages                                *)
(***************************************************************************)
\* pdfUtils.ts 10-17: the document loads with n pages
loadResolve(n) ==
    /\ pc = "load"
    /\ numPages' = n
    /\ images' = << >>
    /\ pc' = "render"
    /\ UNCHANGED <<appVars, dzError, analyzeVars, builderVars, logged>>

\* pdfUtils.ts 10-14: file.arrayBuffer() or getDocument rejects
loadReject ==
    /\ pc = "load"
    /\ catchProcessPdf(ErrReadPdf)
    /\ UNCHANGED <<slides, progress, mode, dzError, convertVars, analyzeVars,
                   builderVars>>

\* Mutation of renderPage: each page is shown as a slide as soon as it is
\* rendered
renderPageShown ==
    /\ pc = "render"
    /\ Len(images) < numPages
    /\ images' = Append(images, PageImage(Len(images) + 1))
    /\ slides' = initialSlides(images')
    /\ UNCHANGED <<appState, progress, error, mode, dzError, pc, numPages, analyzeVars,
                   builderVars, logged>>

\* pdfUtils.ts 19-49: the next page is rendered and pushed
renderPage ==
    /\ pc = "render"
    /\ Len(images) < numPages
    /\ images' = Append(images, PageImage(Len(images) + 1))
    /\ UNCHANGED <<appVars, dzError, pc, numPages, analyzeVars, builderVars, logged>>

\* pdfUtils.ts 20, 31-33, 43: getPage or render rejects, or there is no
\* canvas context
renderReject ==
    /\ pc = "render"
    /\ Len(images) < numPages
    /\ catchProcessPdf(ErrRenderPage)
    /\ UNCHANGED <<slides, progress, mode, dzError, convertVars, analyzeVars,
                   builderVars>>

(***************************************************************************)
(* App.tsx: handleFileAccepted after convertPdfToImages returned           *)
(***************************************************************************)
\* Mutation of handleFileAcceptedPages: ANALYZING_SLIDES is set before the
\* branch on the mode, and createSimplePptx does not set GENERATING_PPT
handleFileAcceptedPagesAnalyzing ==
    /\ pc = "render"
    /\ Len(images) = numPages
    /\ slides' = initialSlides(images)
    /\ progress' = [current |-> 0, total |-> Len(initialSlides(images))]
    /\ currentSlides' = initialSlides(images)
    /\ appState' = "ANALYZING_SLIDES"
    /\ IF mode = "AI_EXTRACT"
       THEN /\ updatedSlides' = initialSlides(images)
            /\ i' = 0
            /\ pc' = "loop"
       ELSE /\ pc' = "delay"
            /\ UNCHANGED <<updatedSlides, i>>
    /\ UNCHANGED <<error, mode, dzError, convertVars, base64Image, builderVars, logged>>

\* pdfUtils.ts 51, App.tsx 24-39, then createSimplePptx 50-52 or
\* analyzeSlides 69-73
handleFileAcceptedPages ==
    /\ pc = "render"
    /\ Len(images) = numPages
    /\ slides' = initialSlides(images)
    /\ progress' = [current |-> 0, total |-> Len(initialSlides(images))]
    /\ currentSlides' = initialSlides(images)
    /\ IF mode = "AI_EXTRACT"
       THEN /\ appState' = "ANALYZING_SLIDES"
            /\ updatedSlides' = initialSlides(images)
            /\ i' = 0
            /\ pc' = "loop"
       ELSE /\ appState' = "GENERATING_PPT"
            /\ pc' = "delay"
            /\ UNCHANGED <<updatedSlides, i>>
    /\ UNCHANGED <<error, mode, dzError, convertVars, base64Image, builderVars, logged>>

(***************************************************************************)
(* App.tsx: analyzeSlides                                                  *)
(***************************************************************************)
\* Mutation of analyzeNext: every remaining slide is marked analyzing at once
analyzeNextAll ==
    /\ pc = "loop"
    /\ i < Len(updatedSlides)
    /\ updatedSlides' = [j \in 1..Len(updatedSlides) |->
                            IF j > i THEN [updatedSlides[j] EXCEPT !.status = "analyzing"]
                            ELSE updatedSlides[j]]
    /\ slides' = updatedSlides'
    /\ base64Image' = updatedSlides[i + 1].originalImage
    /\ pc' = "analyze"
    /\ UNCHANGED <<appState, progress, error, mode, dzError, convertVars,
                   currentSlides, i, builderVars, logged>>

\* Mutation of analyzeNext: analyzeSlideImage is called with the image of
\* the first slide every time
analyzeNextFirstImage ==
    /\ pc = "loop"
    /\ i < Len(updatedSlides)
    /\ updatedSlides' = [updatedSlides EXCEPT ![i + 1].status = "analyzing"]
    /\ slides' = updatedSlides'
    /\ base64Image' = updatedSlides[1].originalImage
    /\ pc' = "analyze"
    /\ UNCHANGED <<appState, progress, error, mode, dzError, convertVars,
                   currentSlides, i, builderVars, logged>>

\* App.tsx 75-81: the next slide is marked analyzing and analyzeSlideImage
\* is called with its image
analyzeNext ==
    /\ pc = "loop"
    /\ i < Len(updatedSlides)
    /\ updatedSlides' = [updatedSlides EXCEPT ![i + 1].status = "analyzing"]
    /\ slides' = updatedSlides'
    /\ base64Image' = updatedSlides[i + 1].originalImage
    /\ pc' = "analyze"
    /\ UNCHANGED <<appState, progress, error, mode, dzError, convertVars,
                   currentSlides, i, builderVars, logged>>

\* App.tsx 81-86, 93-94: analyzeSlideImage resolves with analysis
analyzeResolve(analysis) ==
    /\ pc = "analyze"
    /\ updatedSlides' = [updatedSlides EXCEPT ![i + 1].analysis = analysis,
                                              ![i + 1].status = "done"]
    /\ slides' = updatedSlides'
    /\ progress' = [progress EXCEPT !.current = i + 1]
    /\ i' = i + 1
    /\ pc' = "loop"
    /\ UNCHANGED <<appState, error, mode, dzError, convertVars, currentSlides,
                   base64Image, builderVars, logged>>

\* Mutation of analyzeReject: the failure ends the loop
analyzeRejectBreaks ==
    /\ pc = "analyze"
    /\ updatedSlides' = [updatedSlides EXCEPT ![i + 1].status = "error"]
    /\ slides' = updatedSlides'
    /\ progress' = [progress EXCEPT !.current = i + 1]
    /\ i' = Len(updatedSlides)
    /\ pc' = "loop"
    /\ UNCHANGED <<appState, error, mode, dzError, convertVars, currentSlides,
                   base64Image, builderVars, logged>>

\* Mutation of analyzeReject: the failed slide is put back to pending
analyzeRejectToPending ==
    /\ pc = "analyze"
    /\ updatedSlides' = [updatedSlides EXCEPT ![i + 1].status = "pending"]
    /\ slides' = updatedSlides'
    /\ progress' = [progress EXCEPT !.current = i + 1]
    /\ i' = i + 1
    /\ pc' = "loop"
    /\ UNCHANGED <<appState, error, mode, dzError, convertVars, currentSlides,
                   base64Image, builderVars, logged>>

\* Mutation of analyzeReject: the failure is not caught per slide and fails
\* the batch
analyzeRejectAborts ==
    /\ pc = "analyze"
    /\ updatedSlides' = [updatedSlides EXCEPT ![i + 1].status = "error"]
    /\ slides' = updatedSlides'
    /\ progress' = [progress EXCEPT !.current = i + 1]
    /\ i' = i + 1
    /\ logged' = "analysis rejected"
    /\ error' = MsgGeneratePpt
    /\ appState' = "ERROR"
    /\ pc' = "idle"
    /\ UNCHANGED <<mode, dzError, convertVars, currentSlides, base64Image, builderVars>>

\* Mutation of analyzeReject: the progress is advanced in the try block, so
\* a failed slide does not count
analyzeRejectNoProgress ==
    /\ pc = "analyze"
    /\ updatedSlides' = [updatedSlides EXCEPT ![i + 1].status = "error"]
    /\ slides' = updatedSlides'
    /\ i' = i + 1
    /\ pc' = "loop"
    /\ UNCHANGED <<appState, progress, error, mode, dzError, convertVars, currentSlides,
                   base64Image, builderVars, logged>>

\* Mutation of analyzeReject: the catch stores a stand-in analysis with
\* the error status
analyzeRejectStandIn ==
    /\ pc = "analyze"
    /\ updatedSlides' = [updatedSlides EXCEPT ![i + 1].analysis = AnalysisIntro,
                                              ![i + 1].status = "error"]
    /\ slides' = updatedSlides'
    /\ progress' = [progress EXCEPT !.current = i + 1]
    /\ i' = i + 1
    /\ pc' = "loop"
    /\ UNCHANGED <<appState, error, mode, dzError, convertVars, currentSlides,
                   base64Image, builderVars, logged>>

\* App.tsx 87-90, 93-94: analyzeSlideImage rejects
analyzeReject ==
    /\ pc = "analyze"
    /\ updatedSlides' = [updatedSlides EXCEPT ![i + 1].status = "error"]
    /\ slides' = updatedSlides'
    /\ progress' = [progress EXCEPT !.current = i + 1]
    /\ i' = i + 1
    /\ pc' = "loop"
    /\ UNCHANGED <<appState, error, mode, dzError, convertVars, currentSlides,
                   base64Image, builderVars, logged>>

\* App.tsx 75, 97: the loop ends
analyzeLoopExit ==
    /\ pc = "loop"
    /\ ~(i < Len(updatedSlides))
    /\ appState' = "GENERATING_PPT"
    /\ pc' = "finalize"
    /\ UNCHANGED <<slides, progress, error, mode, dzError, convertVars,
                   analyzeVars, builderVars, logged>>

\* App.tsx 98-103, 108-112: no valid slide
finalizeNoSlides ==
    /\ pc = "finalize"
    /\ Len(validSlides(updatedSlides)) = 0
    /\ catchGeneratePpt(ErrNoSlides)
    /\ UNCHANGED <<slides, progress, mode, dzError, convertVars, analyzeVars,
                   builderVars>>

\* Mutation of finalizeGenerate: the check for an empty list is missing
finalizeGenerateUnchecked ==
    /\ pc = "finalize"
    /\ processedSlides' = validSlides(updatedSlides)
    /\ pptx' = NewPptx
    /\ k' = 1
    /\ f' = 1
    /\ pc' = "assemble"
    /\ UNCHANGED <<appVars, dzError, convertVars, analyzeVars, crop, logged>>

\* App.tsx 98-106 and pptBuilder.ts 107-113: generatePptx is called with
\* the valid slides
finalizeGenerate ==
    /\ pc = "finalize"
    /\ Len(validSlides(updatedSlides)) # 0
    /\ processedSlides' = validSlides(updatedSlides)
    /\ pptx' = NewPptx
    /\ k' = 1
    /\ f' = 1
    /\ pc' = "assemble"
    /\ UNCHANGED <<appVars, dzError, convertVars, analyzeVars, crop, logged>>

(***************************************************************************)
(* services/pptBuilder.ts: generatePptx                                    *)
(***************************************************************************)
slideItem == processedSlides[k]
figures == slideItem.analysis.figures
figure == figures[f]

\* Mutation of assembleSlide: the operations are collected in a list that is
\* not emptied between slide items
assembleSlideAccumulates ==
    /\ pc = "assemble"
    /\ k <= Len(processedSlides)
    /\ IF slideItem.analysis = Null
       THEN /\ k' = k + 1
            /\ UNCHANGED <<pptx, f, pc>>
       ELSE /\ pptx' = addSlide(pptx, slideItem,
                                (IF pptx.slides = << >> THEN << >>
                                 ELSE pptx.slides[Len(pptx.slides)].ops)
                                \o BackgroundOps(slideItem.analysis)
                                \o TitleOps(slideItem.analysis)
                                \o ContentOps(slideItem.analysis))
            /\ f' = 1
            /\ pc' = "figures"
            /\ k' = k
    /\ UNCHANGED <<appVars, dzError, convertVars, analyzeVars, processedSlides, crop, logged>>

\* pptBuilder.ts 116-181: the next slide item; background, title and body
assembleSlide ==
    /\ pc = "assemble"
    /\ k <= Len(processedSlides)
    /\ IF slideItem.analysis = Null
       THEN /\ k' = k + 1
            /\ UNCHANGED <<pptx, f, pc>>
       ELSE /\ pptx' = addSlide(pptx, slideItem,
                                BackgroundOps(slideItem.analysis)
                                \o TitleOps(slideItem.analysis)
                                \o ContentOps(slideItem.analysis))
            /\ f' = 1
            /\ pc' = "figures"
            /\ k' = k
    /\ UNCHANGED <<appVars, dzError, convertVars, analyzeVars, processedSlides, crop, logged>>

\* pptBuilder.ts 185-194: a figure with an invalid box is skipped
figureSkip ==
    /\ pc = "figures"
    /\ f <= Len(figures)
    /\ InvalidBox(figure.boundingBox)
    /\ f' = f + 1
    /\ UNCHANGED <<appVars, dzError, pc, convertVars, analyzeVars, processedSlides,
                   k, pptx, crop, logged>>

\* Mutation of afterCrop: the catch is around the loop over the figures, so
\* a failed figure ends the loop
afterCropEndsLoop(result) ==
    /\ pptx' = IF result.ok
               THEN addOps(pptx, <<FigureImageOp(result.data, figure.boundingBox)>>)
               ELSE pptx
    /\ f' = IF result.ok THEN f + 1 ELSE Len(figures) + 1
    /\ pc' = "figures"

\* pptBuilder.ts 197-209: the continuation of await cropImage(...), which
\* adds the image or, in the catch, skips the figure
afterCrop(result) ==
    /\ pptx' = IF result.ok
               THEN addOps(pptx, <<FigureImageOp(result.data, figure.boundingBox)>>)
               ELSE pptx
    /\ f' = f + 1
    /\ pc' = "figures"

\* pptBuilder.ts 185-197: cropImage is called for a figure that passed the
\* pre-filter; the await suspends unless the promise is already rejected
figureCrop ==
    /\ pc = "figures"
    /\ f <= Len(figures)
    /\ ~InvalidBox(figure.boundingBox)
    /\ crop' = cropImage(slideItem.originalImage, figure.boundingBox)
    /\ IF crop'.promise.state = "settled"
       THEN afterCrop(crop'.promise.result)
       ELSE /\ pc' = "crop"
            /\ UNCHANGED <<pptx, f>>
    /\ UNCHANGED <<appVars, dzError, convertVars, analyzeVars, processedSlides,
                   k, logged>>

\* Mutation of cropOnload: onload does not call clearTimeout
cropOnloadKeepsTimeout(ctxOk) ==
    /\ crop.decode = "pending"
    /\ crop' = [crop EXCEPT !.decode = "loaded",
                            !.promise = Settle(@, onload(crop.image, crop.box, ctxOk))]
    /\ IF pc = "crop" /\ crop.promise.state = "pending"
       THEN afterCrop(crop'.promise.result)
       ELSE UNCHANGED <<pptx, f, pc>>
    /\ UNCHANGED <<appVars, dzError, convertVars, analyzeVars, processedSlides,
                   k, logged>>

\* pptBuilder.ts 21-67: img.onload; it settles the promise if the timeout
\* has not done so, and then the await continues
cropOnload(ctxOk) ==
    /\ crop.decode = "pending"
    /\ crop' = [crop EXCEPT !.decode = "loaded",
                            !.timer = clearTimeout(@),
                            !.promise = Settle(@, onload(crop.image, crop.box, ctxOk))]
    /\ IF pc = "crop" /\ crop.promise.state = "pending"
       THEN afterCrop(crop'.promise.result)
       ELSE UNCHANGED <<pptx, f, pc>>
    /\ UNCHANGED <<appVars, dzError, convertVars, analyzeVars, processedSlides,
                   k, logged>>

\* pptBuilder.ts 69-72: img.onerror
cropOnerror ==
    /\ crop.decode = "pending"
    /\ crop' = [crop EXCEPT !.decode = "failed",
                            !.timer = clearTimeout(@),
                            !.promise = Settle(@, onerror)]
    /\ IF pc = "crop" /\ crop.promise.state = "pending"
       THEN afterCrop(crop'.promise.result)
       ELSE UNCHANGED <<pptx, f, pc>>
    /\ UNCHANGED <<appVars, dzError, convertVars, analyzeVars, processedSlides,
                   k, logged>>

\* Mutation of cropTimeout: the callback of the timeout does not reject
cropTimeoutSilent ==
    /\ crop.timer = "armed"
    /\ crop' = [crop EXCEPT !.timer = "fired"]
    /\ UNCHANGED <<appVars, dzError, pc, convertVars, analyzeVars, processedSlides,
                   k, f, pptx, logged>>

\* pptBuilder.ts 17-19: the timeout fires
cropTimeout ==
    /\ crop.timer = "armed"
    /\ crop' = [crop EXCEPT !.timer = "fired",
                            !.promise = Settle(@, onTimeout)]
    /\ IF pc = "crop" /\ crop.promise.state = "pending"
       THEN afterCrop(crop'.promise.result)
       ELSE UNCHANGED <<pptx, f, pc>>
    /\ UNCHANGED <<appVars, dzError, convertVars, analyzeVars, processedSlides,
                   k, logged>>

\* pptBuilder.ts 184-185, 213-217: the figures are exhausted; notes
figuresDone ==
    /\ pc = "figures"
    /\ ~(f <= Len(figures))
    /\ pptx' = addOps(pptx, NotesOps(slideItem.analysis))
    /\ k' = k + 1
    /\ pc' = "assemble"
    /\ UNCHANGED <<appVars, dzError, convertVars, analyzeVars, processedSlides,
                   f, crop, logged>>

\* Mutation of generatePptxWrite: writeFile is called without await, so
\* generatePptx returns and the run completes with the write pending
generatePptxWriteNotAwaited ==
    /\ pc = "assemble"
    /\ ~(k <= Len(processedSlides))
    /\ pptx' = [pptx EXCEPT !.write = "pending"]
    /\ appState' = "COMPLETED"
    /\ pc' = "idle"
    /\ UNCHANGED <<slides, progress, error, mode, dzError, convertVars, analyzeVars,
                   processedSlides, k, f, crop, logged>>

\* pptBuilder.ts 116, 219: the slide items are exhausted; writeFile is called
generatePptxWrite ==
    /\ pc = "assemble"
    /\ ~(k <= Len(processedSlides))
    /\ pptx' = [pptx EXCEPT !.write = "pending"]
    /\ pc' = "write"
    /\ UNCHANGED <<appVars, dzError, convertVars, analyzeVars, processedSlides,
                   k, f, crop, logged>>

\* pptBuilder.ts 219 and App.tsx 106-107: writeFile resolves
generatePptxResolve ==
    /\ pc = "write"
    /\ mode = "AI_EXTRACT"
    /\ pptx' = [pptx EXCEPT !.write = "ok"]
    /\ appState' = "COMPLETED"
    /\ pc' = "idle"
    /\ UNCHANGED <<slides, progress, error, mode, dzError, convertVars,
                   analyzeVars, processedSlides, k, f, crop, logged>>

\* Mutation of generatePptxReject: the rejection is swallowed
generatePptxRejectSwallowed ==
    /\ pc = "write"
    /\ mode = "AI_EXTRACT"
    /\ pptx' = [pptx EXCEPT !.write = "failed"]
    /\ appState' = "COMPLETED"
    /\ pc' = "idle"
    /\ UNCHANGED <<slides, progress, error, mode, dzError, convertVars,
                   analyzeVars, processedSlides, k, f, crop, logged>>

\* pptBuilder.ts 219 and App.tsx 106, 108-112: writeFile rejects
generatePptxReject ==
    /\ pc = "write"
    /\ mode = "AI_EXTRACT"
    /\ pptx' = [pptx EXCEPT !.write = "failed"]
    /\ catchGeneratePpt(ErrWrite)
    /\ UNCHANGED <<slides, progress, mode, dzError, convertVars, analyzeVars,
                   processedSlides, k, f, crop>>

(***************************************************************************)
(* App.tsx: createSimplePptx, services/pptBuilder.ts: generateImagePptx    *)
(***************************************************************************)
\* App.tsx 52-58 and pptBuilder.ts 82-101: after the 500 ms delay every
\* slide is marked done and generateImagePptx runs up to its writeFile call
createSimplePptx ==
    /\ pc = "delay"
    /\ updatedSlides' = MarkAllDone(currentSlides)
    /\ slides' = updatedSlides'
    /\ processedSlides' = updatedSlides'
    /\ pptx' = [imageSlides(NewPptx, updatedSlides') EXCEPT !.write = "pending"]
    /\ pc' = "write"
    /\ UNCHANGED <<appState, progress, error, mode, dzError, convertVars,
                   currentSlides, i, base64Image, k, f, crop, logged>>

\* pptBuilder.ts 101 and App.tsx 58-59: writeFile resolves
generateImagePptxResolve ==
    /\ pc = "write"
    /\ mode = "IMAGE_ONLY"
    /\ pptx' = [pptx EXCEPT !.write = "ok"]
    /\ appState' = "COMPLETED"
    /\ pc' = "idle"
    /\ UNCHANGED <<slides, progress, error, mode, dzError, convertVars,
                   analyzeVars, processedSlides, k, f, crop, logged>>

\* pptBuilder.ts 101 and App.tsx 58, 60-64: writeFile rejects
generateImagePptxReject ==
    /\ pc = "write"
    /\ mode = "IMAGE_ONLY"
    /\ pptx' = [pptx EXCEPT !.write = "failed"]
    /\ catchGeneratePpt(ErrWrite)
    /\ UNCHANGED <<slides, progress, mode, dzError, convertVars, analyzeVars,
                   processedSlides, k, f, crop>>

(***************************************************************************)
(* Specification                                                           *)
(***************************************************************************)
Next ==
    \/ \E m \in ConversionMode : setMode(m)
    \/ \E file \in Files : validateAndProcessReject(file)
    \/ \E file \in Files : handleFileAccepted(file)
    \/ handleReset
    \/ \E n \in 0..MaxPages : loadResolve(n)
    \/ loadReject
    \/ renderPage
    \/ renderReject
    \/ handleFileAcceptedPages
    \/ analyzeNext
    \/ \E analysis \in AnalyzerResults : analyzeResolve(analysis)
    \/ analyzeReject
    \/ analyzeLoopExit
    \/ finalizeNoSlides
    \/ finalizeGenerate
    \/ assembleSlide
    \/ figureSkip
    \/ figureCrop
    \/ \E ctxOk \in BOOLEAN : cropOnload(ctxOk)
    \/ cropOnerror
    \/ cropTimeout
    \/ figuresDone
    \/ generatePptxWrite
    \/ generatePptxResolve
    \/ generatePptxReject
    \/ createSimplePptx
    \/ generateImagePptxResolve
    \/ generateImagePptxReject

Spec == Init /\ [][Next]_vars

TypeOK ==
    /\ appState \in AppState
    /\ mode \in ConversionMode
    /\ \A j \in 1..Len(slides) : slides[j].status \in SlideStatus
    /\ pc \in {"idle", "load", "render", "loop", "analyze", "finalize", "assemble",
               "figures", "crop", "delay", "write"}

\* The steps the event loop and the external collaborators take on their
\* own: every action but those of the user
PipelineStep ==
    \/ \E n \in 0..MaxPages : loadResolve(n)
    \/ loadReject
    \/ renderPage
    \/ renderReject
    \/ handleFileAcceptedPages
    \/ analyzeNext
    \/ \E analysis \in AnalyzerResults : analyzeResolve(analysis)
    \/ analyzeReject
    \/ analyzeLoopExit
    \/ finalizeNoSlides
    \/ finalizeGenerate
    \/ assembleSlide
    \/ figureSkip
    \/ figureCrop
    \/ \E ctxOk \in BOOLEAN : cropOnload(ctxOk)
    \/ cropOnerror
    \/ cropTimeout
    \/ figuresDone
    \/ generatePptxWrite
    \/ generatePptxResolve
    \/ generatePptxReject
    \/ createSimplePptx
    \/ generateImagePptxResolve
    \/ generateImagePptxReject

\* A continuation that can run does run, a timer that is armed fires, and
\* every call to the rasterizer, the analyzer and the sink settles
FairSpec == Spec /\ WF_vars(PipelineStep)

(***************************************************************************)
(* Vocabulary of the properties                                            *)
(***************************************************************************)
Settled(s) == s.status \in {"done", "error"}
AllSettled(ss) == \A j \in 1..Len(ss) : Settled(ss[j])

\* the run is past the analysis loop
PastAnalysis == appState \in {"GENERATING_PPT", "COMPLETED", "ERROR"}

\* the pages retained for the AI-extract deck: those among the first n whose
\* slide is done with a present analysis, in increasing page order, each as
\* the page image and the analysis stored for it
RECURSIVE RetainedPages(_)
RetainedPages(n) ==
    IF n = 0 THEN << >>
    ELSE IF IsValidSlide(slides[n])
         THEN Append(RetainedPages(n - 1),
                     [image |-> images[n], analysis |-> slides[n].analysis])
         ELSE RetainedPages(n - 1)

\* the slides added to the deck, each as the page image and analysis of the
\* slide item it was built from
DeckPages ==
    [j \in 1..Len(pptx.slides) |-> [image |-> pptx.slides[j].item.originalImage,
                                    analysis |-> pptx.slides[j].item.analysis]]

IsPrefix(a, b) == Len(a) <= Len(b) /\ SubSeq(b, 1, Len(a)) = a

\* C1: in AI-extract mode the slides added to the deck are, at every moment
\* of the assembly, a prefix of the retained pages (done with a present
\* analysis, in page order), and once writeFile is called they are exactly
\* the retained pages: nothing added for an error or analysis-less slide,
\* nothing dropped, duplicated or reordered.
C1_DeckIsRetainedPagesInOrder ==
    (mode = "AI_EXTRACT" /\ PastAnalysis /\ Len(slides) = Len(images))
        => /\ IsPrefix(DeckPages, RetainedPages(Len(slides)))
           /\ pptx.write # "none" => DeckPages = RetainedPages(Len(slides))

C1_Witness ==
    /\ mode = "AI_EXTRACT"
    /\ appState = "COMPLETED"
    /\ Len(slides) = 2
    /\ slides[1].status = "error"
    /\ slides[2].status = "done"
    /\ Len(pptx.slides) = 1
    /\ pptx.slides[1].item.originalImage = images[2]

\* C2: under FairSpec (every analysis call settles), an AI-extract batch that
\* is being analyzed reaches the end of the loop with every slide done or
\* error, whatever calls fail, and each slide of it is settled on the way;
\* while the batch is analyzed a step changes no slide but the current one,
\* so a failure of slide i+1 marks that slide alone.
C2_EverySlideSettles ==
    /\ (mode = "AI_EXTRACT" /\ appState = "ANALYZING_SLIDES")
           ~> (appState = "GENERATING_PPT" /\ Len(slides) = numPages
               /\ AllSettled(slides))
    /\ \A j \in 1..MaxPages :
           (mode = "AI_EXTRACT" /\ appState = "ANALYZING_SLIDES" /\ j <= Len(slides))
               ~> (j <= Len(slides) /\ Settled(slides[j]))
    /\ [][(mode = "AI_EXTRACT" /\ appState = "ANALYZING_SLIDES")
              => /\ Len(slides') = Len(slides)
                 /\ \A j \in 1..Len(slides) : j # i + 1 => slides'[j] = slides[j]]_vars

C2_Witness ==
    /\ mode = "AI_EXTRACT"
    /\ appState = "GENERATING_PPT"
    /\ Len(slides) = 2
    /\ slides[1].status = "error"
    /\ slides[2].status \in {"done", "error"}

\* C3: in AI-extract mode at most one slide is analyzing; when slide j is
\* analyzing the slides before it are done or error and the slides after it
\* are pending; an analysis call is in flight exactly while a slide is
\* analyzing, and it is the call for that slide, so the call for the next
\* slide is issued only after this one settled.
C3_OneSlideAnalyzingInPageOrder ==
    mode = "AI_EXTRACT" =>
        /\ Cardinality({j \in 1..Len(slides) : slides[j].status = "analyzing"}) <= 1
        /\ \A j \in 1..Len(slides) :
               slides[j].status = "analyzing"
                   => /\ \A h \in 1..(j - 1) : Settled(slides[h])
                      /\ \A h \in (j + 1)..Len(slides) : slides[h].status = "pending"
                      /\ pc = "analyze"
                      /\ j = i + 1
        /\ pc = "analyze" => /\ i + 1 <= Len(slides)
                             /\ slides[i + 1].status = "analyzing"

C3_Witness ==
    /\ mode = "AI_EXTRACT"
    /\ pc = "analyze"
    /\ Len(slides) = 2
    /\ slides[1].status = "error"
    /\ slides[2].status = "analyzing"

\* the status changes a slide may make in AI-extract mode
AiStatusStep(a, b) ==
    \/ a = b
    \/ a = "pending" /\ b = "analyzing"
    \/ a = "analyzing" /\ b \in {"done", "error"}

\* C4: in AI-extract mode every step leaves a slide's status as it is or
\* moves it along pending -> analyzing or analyzing -> done | error: done and
\* error are never left, no slide returns to pending or analyzing, none skips
\* analyzing, and so each transition happens at most once per slide.
C4_StatusMonotone ==
    [][mode = "AI_EXTRACT"
           => \A j \in 1..Len(slides) :
                  j <= Len(slides') => AiStatusStep(slides[j].status, slides'[j].status)]_vars

C4_Witness ==
    /\ mode = "AI_EXTRACT"
    /\ Len(slides) = 2
    /\ slides[1].status = "done"
    /\ slides[2].status = "error"

\* C5: in AI-extract mode, once the analysis loop has ended with no slide
\* that is done with a present analysis, no PptxGenJS instance is created and
\* no slide, text, image or file is ever given to the sink, the run is never
\* COMPLETED, and the step that leaves the finalizing position ends in ERROR.
C5_NoValidSlideFailsWithoutSinkCalls ==
    /\ [](mode = "AI_EXTRACT" /\ PastAnalysis /\ Len(validSlides(slides)) = 0
              => /\ pptx = NoPptx
                 /\ appState # "COMPLETED"
                 /\ appState = "ERROR" \/ pc = "finalize")
    /\ [][(mode = "AI_EXTRACT" /\ pc = "finalize" /\ Len(validSlides(slides)) = 0
            /\ pc' # "finalize")
              => appState' = "ERROR"]_vars

C5_Witness ==
    /\ mode = "AI_EXTRACT"
    /\ appState = "ERROR"
    /\ Len(slides) = 2
    /\ \A j \in 1..Len(slides) : slides[j].status = "error"
    /\ logged = ErrNoSlides
    /\ pptx = NoPptx

\* C6: under FairSpec, an AI-extract batch in which some slide is done with
\* a present analysis reaches COMPLETED unless writeFile fails, whatever
\* other analyses failed; a slide in error stays in error until the reset,
\* and at completion the write has succeeded, every slide is done or error
\* and the deck holds exactly one slide per retained page, none for a slide
\* in error.
C6_PartialFailureStillCompletes ==
    /\ (mode = "AI_EXTRACT" /\ appState = "ANALYZING_SLIDES"
        /\ Len(validSlides(slides)) > 0)
           ~> (appState = "COMPLETED" \/ pptx.write = "failed")
    /\ [][(mode = "AI_EXTRACT" /\ appState' # "IDLE")
              => \A j \in 1..Len(slides) :
                     slides[j].status = "error"
                         => j <= Len(slides') /\ slides'[j].status = "error"]_vars
    /\ [](mode = "AI_EXTRACT" /\ appState = "COMPLETED"
              => /\ pptx.write = "ok"
                 /\ AllSettled(slides)
                 /\ Len(pptx.slides) = Len(validSlides(slides))
                 /\ Len(pptx.slides) > 0
                 /\ DeckPages = RetainedPages(Len(slides))
                 /\ \A j \in 1..Len(pptx.slides) : pptx.slides[j].item.status = "done")

C6_Witness ==
    /\ mode = "AI_EXTRACT"
    /\ appState = "COMPLETED"
    /\ Len(slides) = 2
    /\ slides[1].status = "done"
    /\ slides[1].analysis = AnalysisIntro
    /\ slides[2].status = "error"
    /\ Len(pptx.slides) = 1
    /\ pptx.slides[1].item = slides[1]

\* C7: in both modes COMPLETED is entered only by the step in which the
\* pending writeFile succeeds and holds only with a successful write; the
\* step in which writeFile fails ends in ERROR, and a run whose write failed
\* is in ERROR and never COMPLETED.
C7_CompletedOnlyAfterWrite ==
    /\ [](appState = "COMPLETED" => pptx.write = "ok")
    /\ [](pptx.write = "failed" => appState = "ERROR")
    /\ [][(appState' = "COMPLETED" /\ appState # "COMPLETED")
              => pptx.write = "pending" /\ pptx'.write = "ok"]_vars
    /\ [][(pptx.write = "pending" /\ pptx'.write # "pending")
              => \/ pptx'.write = "ok" /\ appState' = "COMPLETED"
                 \/ pptx'.write = "failed" /\ appState' = "ERROR"]_vars

C7_Witness ==
    /\ appState = "ERROR"
    /\ pptx.write = "failed"
    /\ Len(pptx.slides) = 2

\* C8: a run in ERROR reports a reason that tells its cause: the reason
\* reported when no slide was analyzed differs from the one reported when
\* writeFile failed and from the one reported when the PDF could not be read.
C8_FailureReasonsDistinct ==
    appState = "ERROR" =>
        \/ logged \in {ErrReadPdf, ErrRenderPage} /\ error = MsgProcessPdf
        \/ logged = ErrWrite /\ error = MsgGeneratePpt
        \/ logged = ErrNoSlides /\ error \notin {MsgProcessPdf, MsgGeneratePpt, NoError}

\* C9: when the document has zero pages the run is never COMPLETED and
\* writeFile is never called, in either mode.
C9_EmptyInputFails ==
    (appState # "IDLE" /\ pc # "load" /\ numPages = 0)
        => appState # "COMPLETED" /\ pptx.write = "none"

\* the status changes a slide may make in image-copy mode
ImageStatusStep(a, b) == a = b \/ (a = "pending" /\ b = "done")

\* C10: in image-copy mode no analysis call is ever in flight and no slide
\* is analyzing, in error or given an analysis; a status only goes from
\* pending to done; and the deck given to writeFile has one slide per page,
\* in page order, whose only operation is the image of that page at 0,0
\* with width and height 100%.
C10_ImageCopyDeck ==
    /\ [](mode = "IMAGE_ONLY" /\ appState # "IDLE"
              => /\ pc \notin {"loop", "analyze", "finalize", "assemble", "figures", "crop"}
                 /\ \A j \in 1..Len(slides) :
                        /\ slides[j].status \in {"pending", "done"}
                        /\ slides[j].analysis = Null
                        /\ slides[j].originalImage = images[j]
                 /\ pptx.created
                        => /\ pptx.write # "none"
                           /\ Len(pptx.slides) = numPages
                           /\ Len(slides) = numPages
                           /\ \A j \in 1..Len(pptx.slides) :
                                  /\ slides[j].status = "done"
                                  /\ Len(pptx.slides[j].ops) = 1
                                  /\ pptx.slides[j].ops[1].op = "addImage"
                                  /\ pptx.slides[j].ops[1].data = images[j]
                                  /\ pptx.slides[j].ops[1].x = "0"
                                  /\ pptx.slides[j].ops[1].y = "0"
                                  /\ pptx.slides[j].ops[1].w = "100%"
                                  /\ pptx.slides[j].ops[1].h = "100%")
    /\ [][mode = "IMAGE_ONLY"
              => \A j \in 1..Len(slides) :
                     j <= Len(slides')
                         => ImageStatusStep(slides[j].status, slides'[j].status)]_vars

C10_Witness ==
    /\ mode = "IMAGE_ONLY"
    /\ appState = "COMPLETED"
    /\ Len(slides) = 2
    /\ Len(pptx.slides) = 2
    /\ images[1] # images[2]

(***************************************************************************)
(* services/pptBuilder.ts on its own: generatePptx and cropImage for any   *)
(* argument they can be given, not only the arguments App.tsx builds       *)
(***************************************************************************)
MaxContent == 3
MaxFigures == 2

\* Box coordinates below, on and above the 0-100 scale
Coords == {-50, 0, 50, 100, 150}
CropBoxes == {<<ymin, xmin, ymax, xmax>> : ymin \in Coords, xmin \in Coords,
                                           ymax \in Coords, xmax \in Coords}
CropImages == {PageImage(1), PageImage(2)}

\* SlideContent.content with n blocks
Blocks(n) == [j \in 1..n |-> "b" \o ToString(j)]

\* SlideContent.figures: every list of at most MaxFigures figures over these
\* boxes
FigureBoxes == {BoxInside, BoxInverted, BoxOutside, BoxOverhang}
FigureLists ==
    UNION {[1..n -> {Figure(box) : box \in FigureBoxes}] : n \in 0..MaxFigures}

Colors == {<< >>, <<"#", "FFFFFF">>, <<"00FF00">>}

FigureVariants ==
    {SlideContent("T", Blocks(2), "TWO_COLUMN", << >>, << >>, "n", figs) :
        figs \in FigureLists}
TextVariants ==
    {SlideContent(t, Blocks(n), l, << >>, << >>, "", << >>) :
        t \in {"", "T"}, n \in 0..MaxContent, l \in LayoutType}
ColorVariants ==
    {SlideContent("T", Blocks(2), "TITLE_AND_CONTENT", bg, fg, n, <<Figure(BoxInside)>>) :
        bg \in Colors, fg \in Colors, n \in {"", "n"}}
BuilderAnalyses == FigureVariants \cup TextVariants \cup ColorVariants

\* pptBuilder.ts 107-113: generatePptx has been called with n slide items
\* of the same page image and analysis; App.tsx is as it is when it makes
\* the call
generatePptxCalled(a, n) ==
    LET deck == [j \in 1..n |-> ProcessedSlide(PageImage(1), a, "done")]
    IN  /\ appState = "GENERATING_PPT"
        /\ slides = deck
        /\ progress = [current |-> n, total |-> n]
        /\ error = NoError
        /\ mode = "AI_EXTRACT"
        /\ dzError = NoError
        /\ pc = "assemble"
        /\ numPages = n
        /\ images = [j \in 1..n |-> PageImage(1)]
        /\ currentSlides = initialSlides(images)
        /\ updatedSlides = deck
        /\ i = n
        /\ base64Image = PageImage(1)
        /\ processedSlides = validSlides(deck)
        /\ k = 1
        /\ f = 1
        /\ pptx = NewPptx
        /\ crop = NoCrop
        /\ logged = NoError

BuilderInit ==
    \/ Init
    \/ \E a \in BuilderAnalyses, n \in 1..MaxPages : generatePptxCalled(a, n)

\* pptBuilder.ts 5: cropImage called once on its own, outside generatePptx
callCropImage(img, box) ==
    /\ pc = "idle"
    /\ ~pptx.created
    /\ crop = NoCrop
    /\ crop' = cropImage(img, box)
    /\ UNCHANGED <<appVars, dzError, pc, convertVars, analyzeVars, processedSlides,
                   k, f, pptx, logged>>

BuilderNext ==
    \/ \E img \in CropImages, box \in CropBoxes : callCropImage(img, box)
    \/ assembleSlide
    \/ figureSkip
    \/ figureCrop
    \/ \E ctxOk \in BOOLEAN : cropOnload(ctxOk)
    \/ cropOnerror
    \/ cropTimeout
    \/ figuresDone
    \/ generatePptxWrite
    \/ generatePptxResolve
    \/ generatePptxReject

BuilderSpec == BuilderInit /\ [][BuilderNext]_vars

\* The timeout armed by cropImage fires unless it is cleared, and the
\* synchronous code of generatePptx between two awaits runs; nothing is
\* assumed of the image decode or of writeFile
BuilderStep ==
    assembleSlide \/ figureSkip \/ figureCrop \/ figuresDone \/ generatePptxWrite

FairBuilderSpec == BuilderSpec /\ WF_vars(cropTimeout) /\ WF_vars(BuilderStep)

(***************************************************************************)
(* Vocabulary of the properties of generatePptx                            *)
(***************************************************************************)
\* generatePptx is between its first statement and the call of writeFile
Assembling == pc \in {"assemble", "figures", "crop"}

\* where an image operation is placed
Placement(o) == <<o.x, o.y, o.w, o.h>>

\* where the figure with this box is to be placed: the box as percentages
BoxPlacement(box) == <<Percent(box[2]), Percent(box[1]), Percent(box[4] - box[2]),
                       Percent(box[3] - box[1])>>

ImageOps(ops) == SelectSeq(ops, LAMBDA o : o.op = "addImage")
OtherOps(ops) == SelectSeq(ops, LAMBDA o : o.op # "addImage")

\* the boxes of the figures of figs whose position is in sel, in the order
\* of figs
SelectedBoxes(figs, sel) ==
    LET picked == SelectSeq([j \in 1..Len(figs) |-> j], LAMBDA j : j \in sel)
    IN  [h \in 1..Len(picked) |-> figs[picked[h]].boundingBox]

\* imgs are image operations for some of the figures figs, each at the
\* place of its figure, in the order of figs
PlacedInOrder(imgs, figs) ==
    \E sel \in SUBSET (1..Len(figs)) :
        LET boxes == SelectedBoxes(figs, sel)
        IN  /\ Len(imgs) = Len(boxes)
            /\ \A h \in 1..Len(imgs) : Placement(imgs[h]) = BoxPlacement(boxes[h])

(***************************************************************************)
(* C11: a figure that fails is skipped and costs nothing else              *)
(***************************************************************************)
\* the step that finishes the current figure: either the pre-filter skipped
\* it, or its crop settled
C11_FigureFinished == pc \in {"figures", "crop"} /\ f' # f

\* whether that figure failed: its box is inverted or empty, or its crop
\* was rejected (degenerate crop, decode error, decode timeout, no canvas
\* context)
C11_FigureFailed ==
    \/ figure.boundingBox[4] <= figure.boundingBox[2]
    \/ figure.boundingBox[3] <= figure.boundingBox[1]
    \/ ~crop'.promise.result.ok

C11_FigureStep ==
    C11_FigureFinished =>
        /\ f' = f + 1 /\ k' = k /\ pc' = "figures"
        /\ IF C11_FigureFailed
           THEN pptx' = pptx
           ELSE /\ crop'.box = figure.boundingBox
                /\ crop'.image = slideItem.originalImage
                /\ pptx' = [pptx EXCEPT !.slides[Len(pptx.slides)].ops =
                               Append(@, [op |-> "addImage",
                                          data |-> crop'.promise.result.data,
                                          x |-> Percent(figure.boundingBox[2]),
                                          y |-> Percent(figure.boundingBox[1]),
                                          w |-> Percent(figure.boundingBox[4]
                                                        - figure.boundingBox[2]),
                                          h |-> Percent(figure.boundingBox[3]
                                                        - figure.boundingBox[1])])]

\* the figures of a slide are left only when each has been finished
C11_NoFigureLeftOut == pc = "figures" /\ pc' # "figures" /\ pc' # "crop" => f = Len(figures) + 1

\* nothing is thrown out of generatePptx before writeFile is called
C11_NoEscape == Assembling => appState' = appState /\ error' = error /\ logged' = logged

\* every slide added so far: background, title and body first, then image
\* operations for some of its figures in figure order, and, once the slide
\* is finished, its notes
C11_SlideShape ==
    pptx.created =>
        \A j \in 1..Len(pptx.slides) :
            LET a == pptx.slides[j].item.analysis
                ops == pptx.slides[j].ops
                head == BackgroundOps(a) \o TitleOps(a) \o ContentOps(a)
                finished == j < Len(pptx.slides) \/ ~(pc \in {"figures", "crop"})
                tail == IF finished THEN NotesOps(a) ELSE << >>
                imgs == SubSeq(ops, Len(head) + 1, Len(ops) - Len(tail))
            IN  /\ Len(ops) >= Len(head) + Len(tail)
                /\ SubSeq(ops, 1, Len(head)) = head
                /\ SubSeq(ops, Len(ops) - Len(tail) + 1, Len(ops)) = tail
                /\ imgs = ImageOps(imgs)
                /\ PlacedInOrder(imgs, a.figures)

\* when writeFile is called, every slide item has its slide
C11_AllAssembled ==
    pptx.write # "none" /\ mode = "AI_EXTRACT" =>
        /\ Len(pptx.slides) = Len(processedSlides)
        /\ \A j \in 1..Len(pptx.slides) : pptx.slides[j].item = processedSlides[j]

\* C11: while generatePptx assembles a slide, whichever of its figures fail
\* (inverted or empty box, degenerate crop, decode error, decode timeout),
\* the step that finishes a figure adds exactly one image operation, at the
\* figure's place, when the figure did not fail and changes nothing of the
\* deck when it failed; the background and text operations of the slide
\* are kept, the notes are still added, the later slide items are still
\* assembled, nothing is thrown, and writeFile is eventually called.
C11_FailedFiguresAreSkipped ==
    /\ [][C11_FigureStep /\ C11_NoFigureLeftOut /\ C11_NoEscape]_vars
    /\ [](C11_SlideShape /\ C11_AllAssembled)
    /\ (Assembling ~> pptx.write = "pending")

\* two slides are written out, the first figure of each having failed in
\* its crop and the second having been placed
C11_Witness ==
    /\ pptx.write = "pending"
    /\ Len(pptx.slides) = 2
    /\ \A j \in 1..2 :
        /\ Len(pptx.slides[j].item.analysis.figures) = 2
        /\ ~InvalidBox(pptx.slides[j].item.analysis.figures[1].boundingBox)
        /\ Len(ImageOps(pptx.slides[j].ops)) = 1
        /\ Placement(ImageOps(pptx.slides[j].ops)[1])
             = BoxPlacement(pptx.slides[j].item.analysis.figures[2].boundingBox)
        /\ pptx.slides[j].item.analysis.figures[1].boundingBox
             # pptx.slides[j].item.analysis.figures[2].boundingBox

(***************************************************************************)
(* C12: an inverted or empty box is refused before any work                *)
(***************************************************************************)
\* xMax <= xMin or yMax <= yMin, the box being [ymin, xmin, ymax, xmax]
InvertedOrEmpty(box) == box[4] <= box[2] \/ box[3] <= box[1]

\* a cropImage call with such a box: rejected at once, no timeout armed, no
\* decode started
C12_RefusedAtOnce ==
    crop.image # "none" /\ InvertedOrEmpty(crop.box) =>
        /\ crop.promise = [state |-> "settled",
                           result |-> [ok |-> FALSE, err |-> "Invalid bounding box"]]
        /\ crop.timer = "none"
        /\ crop.decode = "none"

\* generatePptx never makes such a call
C12_NeverCalledByAssembler ==
    pptx.created /\ crop.image # "none" => ~InvertedOrEmpty(crop.box)

\* the step that deals with such a figure in generatePptx goes to the next
\* figure and leaves the cropImage record and the deck alone
C12_PreFilterStep ==
    /\ pc = "figures" /\ f <= Len(figures)
    /\ InvertedOrEmpty(figure.boundingBox)
    /\ <<f, pc, k, pptx>> # <<f', pc', k', pptx'>>
    => /\ f' = f + 1 /\ pc' = "figures" /\ k' = k
       /\ pptx' = pptx
       /\ crop' = crop

\* C12: for every box with xMax <= xMin or yMax <= yMin a cropImage call is
\* rejected with "Invalid bounding box" without a timeout having been armed
\* or an image decode started, and generatePptx skips a figure with such a
\* box without calling cropImage.
C12_InvalidBoxFailsFast ==
    /\ [](C12_RefusedAtOnce /\ C12_NeverCalledByAssembler)
    /\ [][C12_PreFilterStep]_vars

\* cropImage has been called with a box of no width
C12_Witness ==
    /\ crop.image # "none"
    /\ crop.box[4] = crop.box[2]
    /\ crop.box[3] > crop.box[1]
    /\ crop.promise.state = "settled"

(***************************************************************************)
(* C13, C14, C15: the rectangle cropImage reads from the page image        *)
(***************************************************************************)
\* cropImage resolved: drawImage read the rectangle crop.promise.result.data
CropSucceeded ==
    /\ crop.promise.state = "settled"
    /\ crop.promise.result.ok

\* the image decoded and its load event came before the timeout
LoadedInTime == crop.decode = "loaded" /\ crop.timer = "cleared"

\* C13: whenever cropImage succeeds, for any image size and any box
\* (coordinates below 0 or above 100 included), the rectangle it reads has
\* safeX >= 0, safeY >= 0, safeW > 0, safeH > 0, safeX + safeW <= width and
\* safeY + safeH <= height.
C13_SourceRectangleInsideImage ==
    CropSucceeded =>
        LET r == crop.promise.result.data
        IN  /\ r.sx >= 0 /\ r.sy >= 0
            /\ r.sw > 0 /\ r.sh > 0
            /\ r.sx + r.sw <= ImageWidth(crop.image)
            /\ r.sy + r.sh <= ImageHeight(crop.image)

\* cropImage succeeded on a box that overhangs the image on every side
C13_Witness ==
    /\ CropSucceeded
    /\ crop.box[1] < 0 /\ crop.box[2] < 0
    /\ crop.box[3] > 100 /\ crop.box[4] > 100

\* all four coordinates within 0..100, xMax > xMin and yMax > yMin
InRangeBox(box) ==
    /\ \A c \in 1..4 : box[c] >= 0 /\ box[c] <= 100
    /\ box[4] > box[2] /\ box[3] > box[1]

\* the rectangle of the box in pixels, nothing clamped
ExactRectangle(img, box) ==
    [src |-> img,
     sx |-> (box[2] * ImageWidth(img)) \div 100,
     sy |-> (box[1] * ImageHeight(img)) \div 100,
     sw |-> ((box[4] - box[2]) * ImageWidth(img)) \div 100,
     sh |-> ((box[3] - box[1]) * ImageHeight(img)) \div 100]

OutsideBox(box) ==
    /\ box[4] > box[2] /\ box[3] > box[1]
    /\ (box[2] >= 100 \/ box[1] >= 100 \/ box[4] <= 0 \/ box[3] <= 0)

\* C15: for every box in valid order whose rectangle lies wholly outside
\* the image, on whichever side, cropImage fails (with "Invalid calculated
\* crop dimensions" once it has a canvas context).
C15_OutsideBoxFails ==
    LoadedInTime /\ OutsideBox(crop.box) =>
        /\ crop.promise.state = "settled"
        /\ crop.promise.result \in
              {[ok |-> FALSE, err |-> "Invalid calculated crop dimensions"],
               [ok |-> FALSE, err |-> "Could not get canvas context"]}

(***************************************************************************)
(* C16: a cropImage call settles, once                                     *)
(***************************************************************************)
TimedOut == [ok |-> FALSE, err |-> "Image load timed out in cropImage"]

\* the timeout fires only on a call that is still pending, and rejects it
C16_TimeoutRejects ==
    crop.timer = "armed" /\ crop'.timer = "fired" =>
        /\ crop.promise.state = "pending"
        /\ crop'.promise = [state |-> "settled", result |-> TimedOut]

\* a settled call keeps its outcome, and what comes after (a late load or
\* error event) is not reported to generatePptx again
C16_SettledOnce ==
    crop.promise.state = "settled" /\ crop'.promise.state = "settled" =>
        /\ crop'.promise = crop.promise
        /\ crop' # crop => UNCHANGED <<pptx, f, k, pc>>

\* a load or error event that comes while the timeout is armed clears it,
\* and a cleared timeout does not fire
C16_EventCancelsTimeout ==
    /\ crop.timer = "armed" /\ crop.decode = "pending" /\ crop'.decode \in {"loaded", "failed"}
       => crop'.timer = "cleared" /\ crop'.promise.state = "settled"
    /\ crop.timer = "cleared" => crop'.timer # "fired"

\* C16: every cropImage call eventually settles, and settles once, also
\* when the image decode signals neither load nor error: then the timeout
\* fires and the call fails with "Image load timed out in cropImage".  A
\* load or error event after the timeout leaves the outcome as it is, and a
\* load or error event that comes first cancels the timeout.
C16_CropSettlesOnce ==
    /\ (crop.promise.state = "pending") ~> (crop.promise.state = "settled")
    /\ [][C16_TimeoutRejects /\ C16_SettledOnce /\ C16_EventCancelsTimeout]_vars

\* the image loaded after the timeout had rejected the call
C16_Witness ==
    /\ crop.timer = "fired"
    /\ crop.decode = "loaded"
    /\ crop.promise = [state |-> "settled", result |-> TimedOut]

(***************************************************************************)
(* C17: the two columns of a TWO_COLUMN slide                              *)
(***************************************************************************)
\* the bulleted text operations placed at x
ColumnOps(ops, x) ==
    SelectSeq(ops, LAMBDA o : o.op = "addText" /\ o.bullet /\ o.x = x)

\* the blocks of a column: those of its text operation, none without one
ColumnBlocks(col) == IF col = << >> THEN << >> ELSE col[1].text

\* C17: on a TWO_COLUMN slide whose content has L blocks the left column
\* (x 0.5) holds the first ceil(L / 2) blocks and the right column (x 5.0)
\* the other L - ceil(L / 2), in their order, so that left followed by
\* right is the content; a column with no block has no text operation
\* (none at all for L = 0, only the left one for L = 1), and there is no
\* other bulleted text on the slide.
C17_TwoColumnSplit ==
    pptx.created /\ mode = "AI_EXTRACT" =>
        \A j \in 1..Len(pptx.slides) :
            LET a == pptx.slides[j].item.analysis
                ops == pptx.slides[j].ops
                left == ColumnOps(ops, "0.5")
                right == ColumnOps(ops, "5.0")
                L == Len(a.content)
            IN  a.layoutType = "TWO_COLUMN" =>
                    /\ Len(left) <= 1 /\ Len(right) <= 1
                    /\ \A h \in 1..Len(left) : Len(left[h].text) > 0
                    /\ \A h \in 1..Len(right) : Len(right[h].text) > 0
                    /\ ColumnBlocks(left) \o ColumnBlocks(right) = a.content
                    /\ 2 * Len(ColumnBlocks(left)) \in {L, L + 1}
                    /\ Len(ColumnBlocks(right)) = L - Len(ColumnBlocks(left))
                    /\ Len(SelectSeq(ops, LAMBDA o : o.op = "addText" /\ o.bullet))
                         = Len(left) + Len(right)
                    /\ \A h1, h2 \in 1..Len(ops) :
                         ops[h1] \in {left[h] : h \in 1..Len(left)}
                         /\ ops[h2] \in {right[h] : h \in 1..Len(right)} => h1 < h2

\* a TWO_COLUMN slide of three blocks: two on the left, one on the right
C17_Witness ==
    /\ pptx.created /\ mode = "AI_EXTRACT"
    /\ \E j \in 1..Len(pptx.slides) :
        /\ pptx.slides[j].item.analysis.layoutType = "TWO_COLUMN"
        /\ Len(pptx.slides[j].item.analysis.content) = 3
        /\ Len(ColumnBlocks(ColumnOps(pptx.slides[j].ops, "0.5"))) = 2
        /\ Len(ColumnBlocks(ColumnOps(pptx.slides[j].ops, "5.0"))) = 1

(***************************************************************************)
(* C18: background and text color of a slide                               *)
(***************************************************************************)
White == <<"FFFFFF">>
Black == <<"000000">>

\* a color as the sink takes it: without a leading '#'
Bare(c) == IF c # << >> /\ c[1] = "#" THEN Tail(c) ELSE c

BackgroundAt(ops) == {h \in 1..Len(ops) : ops[h].op = "background"}
TextAt(ops) == {h \in 1..Len(ops) : ops[h].op = "addText"}

\* the text of a slide is in the analysis's text color, black without one
C18_TextColor(a, ops) ==
    \A h \in TextAt(ops) :
        ops[h].color = (IF a.textColor = << >> THEN Black ELSE Bare(a.textColor))

\* C18 as stated: every slide has a background operation, white when the
\* analysis has no backgroundColor, its text is black when the analysis has
\* no textColor, and the background operation comes before any text.
C18_BackgroundAlwaysSet ==
    pptx.created /\ mode = "AI_EXTRACT" =>
        \A j \in 1..Len(pptx.slides) :
            LET a == pptx.slides[j].item.analysis
                ops == pptx.slides[j].ops
            IN  /\ BackgroundAt(ops) # {}
                /\ \A h \in BackgroundAt(ops) :
                     /\ ops[h].color = (IF a.backgroundColor = << >> THEN White
                                        ELSE Bare(a.backgroundColor))
                     /\ \A t \in TextAt(ops) : h < t
                /\ C18_TextColor(a, ops)

\* C18 (amended): a slide has a background operation exactly when its
\* analysis has a backgroundColor; it is then the first operation of the
\* slide, before any text, and carries that color.  Without a
\* backgroundColor no background operation is emitted.  The text is in the
\* analysis's textColor, black without one.
C18_BackgroundOnlyWhenGiven ==
    pptx.created /\ mode = "AI_EXTRACT" =>
        \A j \in 1..Len(pptx.slides) :
            LET a == pptx.slides[j].item.analysis
                ops == pptx.slides[j].ops
            IN  /\ BackgroundAt(ops) = (IF a.backgroundColor = << >> THEN {} ELSE {1})
                /\ \A h \in BackgroundAt(ops) : ops[h].color = Bare(a.backgroundColor)
                /\ C18_TextColor(a, ops)

\* a finished slide with text whose analysis has neither color: no
\* background operation, black text
C18_Witness ==
    /\ pptx.write = "pending" /\ mode = "AI_EXTRACT"
    /\ \E j \in 1..Len(pptx.slides) :
        /\ pptx.slides[j].item.analysis.backgroundColor = << >>
        /\ pptx.slides[j].item.analysis.textColor = << >>
        /\ BackgroundAt(pptx.slides[j].ops) = {}
        /\ \E h \in TextAt(pptx.slides[j].ops) : pptx.slides[j].ops[h].color = Black

(***************************************************************************)
(* C19: the same page image and analysis assembled twice                   *)
(***************************************************************************)
\* the slides generatePptx has finished
FinishedSlides ==
    {j \in 1..Len(pptx.slides) : j < Len(pptx.slides) \/ ~(pc \in {"figures", "crop"})}

Placements(imgs) == [h \in 1..Len(imgs) |-> Placement(imgs[h])]

BatchCreated ==
    \/ appState \in {"ANALYZING_SLIDES", "GENERATING_PPT", "COMPLETED"}
    \/ appState = "ERROR" /\ error = MsgGeneratePpt

\* one slide per page, slide j holding the image of page j
C20_SlidePerPage ==
    BatchCreated =>
        /\ Len(slides) = numPages
        /\ Len(images) = numPages
        /\ \A j \in 1..numPages : slides[j].originalImage = images[j]

\* the analysis call in flight was made with the image of the page of the
\* slide it is for
C20_CallIsForItsPage ==
    pc = "analyze" =>
        /\ i + 1 \in 1..Len(slides)
        /\ base64Image = images[i + 1]
        /\ slides[i + 1].status = "analyzing"

\* a step that changes a slide within a run changes that slide alone, not
\* its image and no page image; in AI-extract mode an analysis is stored
\* only when the call made with that slide's page image settles
C20_SlideUpdateStep ==
    BatchCreated /\ BatchCreated' =>
        /\ images' = images
        /\ Len(slides') = Len(slides)
        /\ \A j \in 1..Len(slides) :
            /\ slides'[j].originalImage = slides[j].originalImage
            /\ mode = "AI_EXTRACT" /\ slides'[j] # slides[j] =>
                 \A h \in 1..Len(slides) : h # j => slides'[h] = slides[h]
            /\ slides'[j].analysis # slides[j].analysis =>
                 /\ pc = "analyze" /\ pc' = "loop"
                 /\ j = i + 1
                 /\ base64Image = images[j]

\* generatePptx, generateImagePptx and cropImage leave the slides, their
\* own argument and the page images as they are
C20_AssemblyStep ==
    pc \in {"assemble", "figures", "crop", "write"} =>
        /\ slides' = slides
        /\ updatedSlides' = updatedSlides
        /\ processedSlides' = processedSlides
        /\ images' = images

\* C20: for a document of N pages, in every state of a run after the batch
\* is created there are N slides and slide i holds the image of page i;
\* the analysis stored in slide i is the result of the analyzeSlideImage
\* call made with the image of page i; a status or analysis update of
\* slide i leaves every other slide and every page image unchanged; and
\* the assembly (generatePptx, generateImagePptx, cropImage) changes no
\* slide's image, analysis or status.
C20_SlidesKeepTheirPages ==
    /\ [](C20_SlidePerPage /\ C20_CallIsForItsPage)
    /\ [][C20_SlideUpdateStep /\ C20_AssemblyStep]_vars

\* two pages analyzed with different results, the deck assembled with a
\* cropped figure on it and handed to writeFile
C20_Witness ==
    /\ mode = "AI_EXTRACT" /\ pc = "write"
    /\ numPages = 2
    /\ slides[1].analysis = AnalysisFigures
    /\ slides[2].analysis = AnalysisIntro
    /\ Len(pptx.slides) = 2
    /\ Len(ImageOps(pptx.slides[1].ops)) = 1

(***************************************************************************)
(* C21: the progress record of an AI-extract run                           *)
(***************************************************************************)
\* the number of slides that are done or error
SettledCount(ss) == Cardinality({j \in 1..Len(ss) : Settled(ss[j])})

\* an AI-extract run that has its slide batch
AiRun == mode = "AI_EXTRACT" /\ BatchCreated

C21_ProgressCounts ==
    AiRun =>
        /\ progress.total = numPages
        /\ progress.total = Len(slides)
        /\ 0 <= progress.current /\ progress.current <= progress.total
        /\ progress.current = SettledCount(slides)

\* within the run current never decreases, and it goes up, by one, with
\* exactly the steps in which a slide becomes done or error
C21_ProgressStep ==
    AiRun /\ AiRun' =>
        /\ progress'.total = progress.total
        /\ progress'.current >= progress.current
        /\ progress'.current \in {progress.current, progress.current + 1}
        /\ (progress'.current = progress.current + 1)
             <=> (\E j \in 1..Len(slides) : ~Settled(slides[j]) /\ Settled(slides'[j]))

C21_FullWhenFinalizing ==
    mode = "AI_EXTRACT" /\ appState # "GENERATING_PPT" /\ appState' = "GENERATING_PPT"
        => progress'.current = progress'.total

\* C21: during an AI-extract run 0 <= current <= total with total the
\* number of pages; current never decreases, goes up by exactly 1 each time
\* a slide becomes done or error, the one like the other, equals the number
\* of slides that are done or error, and equals total when the run enters
\* GENERATING_PPT.
C21_ProgressCountsSettledSlides ==
    /\ []C21_ProgressCounts
    /\ [][C21_ProgressStep /\ C21_FullWhenFinalizing]_vars

\* two pages, the first failed and the second analyzed: 2 of 2
C21_Witness ==
    /\ mode = "AI_EXTRACT" /\ appState = "GENERATING_PPT"
    /\ Len(slides) = 2
    /\ slides[1].status = "error" /\ slides[2].status = "done"
    /\ progress = [current |-> 2, total |-> 2]

(***************************************************************************)
(* C22: the moves of appState                                              *)
(***************************************************************************)
\* the moves of a run; handleReset, which ends the run, is the one other
\* change of appState
RunMoves ==
    {<<"IDLE", "PROCESSING_PDF">>,
     <<"PROCESSING_PDF", "ANALYZING_SLIDES">>,
     <<"PROCESSING_PDF", "GENERATING_PPT">>,
     <<"PROCESSING_PDF", "ERROR">>,
     <<"ANALYZING_SLIDES", "GENERATING_PPT">>,
     <<"GENERATING_PPT", "COMPLETED">>,
     <<"GENERATING_PPT", "ERROR">>}

C22_Move ==
    appState' # appState =>
        \/ <<appState, appState'>> \in RunMoves
        \/ appState = "COMPLETED" /\ appState' = "IDLE" /\ slides' = << >>

\* the mode is the one selected when the file was accepted, and decides
\* whether ANALYZING_SLIDES is visited
C22_ModeDecides ==
    /\ appState # "IDLE" => mode' = mode
    /\ appState = "PROCESSING_PDF" /\ appState' = "ANALYZING_SLIDES" => mode = "AI_EXTRACT"
    /\ appState = "PROCESSING_PDF" /\ appState' = "GENERATING_PPT" => mode = "IMAGE_ONLY"
    /\ appState = "ANALYZING_SLIDES" => mode = "AI_EXTRACT"

C22_GeneratingAfterAllSettled ==
    mode = "AI_EXTRACT" /\ appState # "GENERATING_PPT" /\ appState' = "GENERATING_PPT"
        => appState = "ANALYZING_SLIDES" /\ AllSettled(slides')

\* C22: appState only moves along IDLE -> PROCESSING_PDF ->
\* (ANALYZING_SLIDES ->) GENERATING_PPT -> COMPLETED | ERROR, and
\* PROCESSING_PDF -> ERROR (the reset from COMPLETED apart, which ends the
\* run); ANALYZING_SLIDES is visited exactly when the mode selected at file
\* acceptance is AI_EXTRACT; in that mode GENERATING_PPT is entered only
\* after every slide is done or error; COMPLETED is entered only from
\* GENERATING_PPT.
C22_AppStateMachine ==
    [][C22_Move /\ C22_ModeDecides /\ C22_GeneratingAfterAllSettled]_vars

\* an image-copy run of two pages has completed: its slides were never
\* analyzed
C22_Witness ==
    /\ appState = "COMPLETED" /\ mode = "IMAGE_ONLY"
    /\ Len(slides) = 2
    /\ \A j \in 1..2 : slides[j].analysis = Null /\ slides[j].status = "done"

(***************************************************************************)
(* C23: a run ends                                                         *)
(***************************************************************************)
\* The steps that are bound to happen when the rasterizer, the analyzer and
\* writeFile return or throw: every step of the pipeline but the load and
\* error events of the image decodes, which may never come
ReturningStep ==
    \/ \E n \in 0..MaxPages : loadResolve(n)
    \/ loadReject
    \/ renderPage
    \/ renderReject
    \/ handleFileAcceptedPages
    \/ analyzeNext
    \/ \E analysis \in AnalyzerResults : analyzeResolve(analysis)
    \/ analyzeReject
    \/ analyzeLoopExit
    \/ finalizeNoSlides
    \/ finalizeGenerate
    \/ assembleSlide
    \/ figureSkip
    \/ figureCrop
    \/ cropTimeout
    \/ figuresDone
    \/ generatePptxWrite
    \/ generatePptxResolve
    \/ generatePptxReject
    \/ createSimplePptx
    \/ generateImagePptxResolve
    \/ generateImagePptxReject

ReturningSpec == Spec /\ WF_vars(ReturningStep)

Running == appState \in {"PROCESSING_PDF", "ANALYZING_SLIDES", "GENERATING_PPT"}

\* ERROR is entered from the rasterizer, from the check for valid slides or
\* from writeFile, never from an analysis call or a figure
C23_Contained ==
    /\ appState # "ERROR" /\ appState' = "ERROR" => pc \in {"load", "render", "finalize", "write"}
    /\ pc \in {"analyze", "figures", "crop"} => appState' = appState /\ error' = error

\* C23: every run started by an accepted file reaches COMPLETED or ERROR,
\* in either mode, provided every rasterizer, analyzer and writeFile call
\* returns or throws, the image decodes of cropImage being free never to
\* respond; a failed figure or slide is not thrown out of the pipeline.
C23_RunEnds ==
    /\ Running ~> (appState \in {"COMPLETED", "ERROR"})
    /\ [][C23_Contained]_vars

\* a run has completed although the decode of its last crop has not
\* responded
C23_Witness ==
    /\ appState = "COMPLETED"
    /\ crop.timer = "fired"
    /\ crop.decode = "pending"

(***************************************************************************)
(* C24: a failure of the rasterizer                                        *)
(***************************************************************************)
\* nothing of a batch: no slide, progress 0 of 0, no analyzeSlideImage call
\* made, no PptxGenJS instance
NoBatch ==
    /\ slides = << >>
    /\ progress = [current |-> 0, total |-> 0]
    /\ updatedSlides = << >>
    /\ base64Image = ""
    /\ pptx = NoPptx

\* while convertPdfToImages runs, and after it has failed, there is nothing
\* of a batch
C24_NoBatchFromRasterizer ==
    \/ appState = "PROCESSING_PDF"
    \/ appState = "ERROR" /\ error = MsgProcessPdf
    => NoBatch

\* a failure of convertPdfToImages, on whichever page, ends the run in
\* ERROR with the message of the catch of handleFileAccepted
C24_FailureStep ==
    pc \in {"load", "render"} /\ pc' = "idle" =>
        /\ appState' = "ERROR"
        /\ error' = MsgProcessPdf

\* C24: if the rasterizer fails on any page, the first or a later one, the
\* run ends in ERROR with the reason "Failed to process PDF. ..." and leaves
\* no partial batch: no slides, progress 0 of 0, no analyzer call and no
\* operation on the output sink.
C24_RasterizerFailureLeavesNoBatch ==
    /\ []C24_NoBatchFromRasterizer
    /\ [][C24_FailureStep]_vars

\* the second page of two failed to render after the first was rendered
C24_Witness ==
    /\ appState = "ERROR"
    /\ error = MsgProcessPdf
    /\ logged = ErrRenderPage
    /\ numPages = 2
    /\ Len(images) = 1

(***************************************************************************)
(* C25: one run at a time                                                  *)
(***************************************************************************)
\* no call of the run is awaited: the pipeline is at no await point, no
\* cropImage promise and no writeFile is pending
NothingPending ==
    /\ pc = "idle"
    /\ crop.promise.state # "pending"
    /\ pptx.write # "pending"

\* the pipeline is suspended at an await exactly while a run is under way,
\* so that when COMPLETED (or ERROR) is reached nothing of the run is pending
C25_QuietWhenOver ==
    /\ appState \in {"IDLE", "COMPLETED", "ERROR"} => NothingPending
    /\ pc # "idle" => Running

\* a run starts only from IDLE, and IDLE is entered only by the reset, from
\* COMPLETED
C25_StartAndReset ==
    /\ appState # "PROCESSING_PDF" /\ appState' = "PROCESSING_PDF" => appState = "IDLE"
    /\ appState # "IDLE" /\ appState' = "IDLE" => appState = "COMPLETED"
    /\ appState' = "IDLE" /\ appState # "IDLE" =>
          slides' = << >> /\ progress' = [current |-> 0, total |-> 0]

\* what is left of an earlier run, the load or error event of a decode
\* whose cropImage call has timed out, changes nothing of the application
\* or of the pipeline
C25_LeftoverStep ==
    crop.promise.state = "settled" /\ crop.decode = "pending" /\ crop'.decode # "pending"
    /\ crop'.box = crop.box /\ crop'.promise.state = "settled"
    => UNCHANGED <<appState, slides, progress, error, mode, pc, updatedSlides, i,
                   processedSlides, k, f, pptx>>

\* C25: at most one conversion run is in flight: a file is accepted only in
\* IDLE, IDLE is re-entered only by the reset, the reset is possible only
\* in COMPLETED, and when COMPLETED is reached no analyzer call, cropImage
\* call or writeFile of the run is pending; so nothing of an earlier run
\* updates the slides, the progress or the state of a later one.
C25_OneRunInFlight ==
    /\ []C25_QuietWhenOver
    /\ [][C25_StartAndReset /\ C25_LeftoverStep]_vars

\* a later run is analyzing while a decode of the run before it has still
\* not responded
C25_Witness ==
    /\ appState = "ANALYZING_SLIDES"
    /\ ~pptx.created
    /\ crop.timer = "fired"
    /\ crop.decode = "pending"

(***************************************************************************)
(* C26: an analysis is stored with the status done only                    *)
(***************************************************************************)
AnalysisOnlyWhenDone(ss) ==
    \A j \in 1..Len(ss) : ss[j].analysis # Null => ss[j].status = "done"

\* a step that makes a slide error leaves its analysis as it was, absent
C26_FailureStoresNothing ==
    \A j \in 1..Len(slides) :
        Len(slides') = Len(slides) /\ slides[j].status # "error" /\ slides'[j].status = "error"
            => slides'[j].analysis = slides[j].analysis /\ slides'[j].analysis = Null

\* C26: in every reachable state of either mode a slide with a present
\* analysis has the status done: a pending, analyzing or error slide has
\* none, and a failed analysis call stores or overwrites none.
C26_AnalysisImpliesDone ==
    /\ [](AnalysisOnlyWhenDone(slides) /\ AnalysisOnlyWhenDone(updatedSlides))
    /\ [][C26_FailureStoresNothing]_vars

\* the first slide failed and has no analysis, the second is done with one
C26_Witness ==
    /\ Len(slides) = 2
    /\ slides[1].status = "error" /\ slides[1].analysis = Null
    /\ slides[2].status = "done" /\ slides[2].analysis # Null

(***************************************************************************)
(* C27: ERROR is final                                                     *)
(***************************************************************************)
\* in ERROR nothing the user sees changes
C27_ErrorStep ==
    appState = "ERROR" => UNCHANGED <<appState, slides, progress, error, mode>>

\* in ERROR there is no reset, no file acceptance and no mode selection; in
\* COMPLETED there is the reset
C27_Offered ==
    /\ appState = "ERROR" =>
         /\ ~ENABLED handleReset
         /\ \A file \in Files : ~ENABLED handleFileAccepted(file)
         /\ \A m \in ConversionMode : ~ENABLED setMode(m)
    /\ appState = "COMPLETED" => ENABLED handleReset

\* the reset, the one step out of COMPLETED
C27_ResetStep ==
    appState = "COMPLETED" /\ appState' # "COMPLETED" =>
        /\ appState' = "IDLE"
        /\ slides' = << >>
        /\ error' = NoError
        /\ progress' = [current |-> 0, total |-> 0]

\* C27: ERROR is absorbing: once a run has ended in ERROR no step changes
\* appState, the slides, the progress or the error message, the reset
\* being offered only in COMPLETED and file acceptance and mode selection
\* only in IDLE, so that no new conversion can be started; after COMPLETED
\* the reset returns to IDLE with no slides, no error and progress 0 of 0.
C27_ErrorIsAbsorbing ==
    /\ []C27_Offered
    /\ [][C27_ErrorStep /\ C27_ResetStep]_vars

\* a second run, started after a reset, has ended in ERROR
C27_Witness ==
    /\ appState = "ERROR"
    /\ error = MsgGeneratePpt
    /\ crop.timer = "fired"
    /\ ~pptx.created


====
